---- MODULE Spec2Model ----
(***************************************************************************)
(* Lazy sequence combinators of examples/chapter_1/src/lib.rs: Range,      *)
(* range_fn, Bounds, bounds_fn, Filter, the iter_to_closure /              *)
(* closure_to_iter bridge and the MultiplexedIterator poll protocol.       *)
(*                                                                         *)
(* A producer is a record (ownership is nesting: a wrapper holds its inner *)
(* producer in its `inner` field, as the Rust structs do by move).  A call *)
(* of next() / of a closure is an operator from a producer to              *)
(* [ret |-> result, st |-> producer after the call].                       *)
(***************************************************************************)
EXTENDS Integers, Sequences, FiniteSets, TLC

VARIABLES
    overflow_checks,  \* the build: TRUE = overflow panics, FALSE = it wraps
    args,             \* the arguments the producers were constructed with
    pipe,             \* the producers under drive, by name
    out,              \* per producer, the results of its calls so far
    turn,             \* index (in the run's order) of the producer called next
    poll              \* the poll protocol's state (producer, notifier, driver)

vars == <<overflow_checks, args, pipe, out, turn, poll>>

(***************************** bounds **************************************)
\* The item type T is a signed integer type MinT..MaxT (i64/usize in the
\* source), small enough to enumerate.
MaxT == 2
\* Longest item list of an abstract inner producer.
MaxLen == 3
\* Calls driven past the longest possible run of items.
ExtraCalls == 1

MinT == -(MaxT + 1)
T == MinT..MaxT
SizeT == MaxT - MinT + 1
RangeCalls == (MaxT - MinT) + ExtraCalls
ScriptCalls == MaxLen + ExtraCalls
\* A loop over a deterministic inner producer that has rejected more items
\* than the inner producer has states never returns.
LoopFuel == SizeT + MaxLen + 1

(************************ results of a call ********************************)
None == [tag |-> "None"]
Some(v) == [tag |-> "Some", val |-> v]
\* `attempt to add with overflow`: the call unwinds instead of returning.
Panic == [tag |-> "Panic"]
\* The call's `loop` never returns.
Diverge == [tag |-> "Diverge"]

IsSome(r) == r.tag = "Some"
Returned(r) == r.tag \in {"None", "Some"}

(************************ integer arithmetic of T **************************)
WrapT(s) == ((s - MinT) % SizeT) + MinT

\* A slip of arithmetic: the sum clamped to the ends of T, so an advance past
\* an end of T neither panics nor wraps.
AddAssign_saturating(a, b) ==
    LET s == a + b IN
    [panic |-> FALSE, val |-> IF s > MaxT THEN MaxT ELSE IF s < MinT THEN MinT ELSE s]

\* `a += b` on a bounded integer: panics with overflow checks, else wraps.
AddAssign(a, b) ==
    LET s == a + b IN
    IF s \in T THEN [panic |-> FALSE, val |-> s]
    ELSE IF overflow_checks THEN [panic |-> TRUE, val |-> a]
    ELSE [panic |-> FALSE, val |-> WrapT(s)]

(****************************** Range **************************************)
Range_new(start, end, incr) ==
    [kind |-> "Range", cur |-> start, end |-> end, incr |-> incr]

\* A slip: the advance hoisted out of the `cur < end` arm.
Range_next_always_advance(self) ==
    LET a == AddAssign(self.cur, self.incr) IN
    IF a.panic
    THEN [ret |-> Panic, st |-> self]
    ELSE [ret |-> IF self.cur < self.end THEN Some(self.cur) ELSE None,
          st |-> [self EXCEPT !.cur = a.val]]

Range_next(self) ==
    IF self.cur < self.end
    THEN LET a == AddAssign(self.cur, self.incr) IN
         IF a.panic
         THEN [ret |-> Panic, st |-> self]
         ELSE [ret |-> Some(self.cur), st |-> [self EXCEPT !.cur = a.val]]
    ELSE [ret |-> None, st |-> self]

(**************************** Fibonacci ************************************)
\* usize, narrowed: the values 0..MaxU.
MaxU == 4 * MaxT
SizeU == MaxU + 1

\* `a + b` on usize: panics with overflow checks, else wraps.
usize_add(a, b) ==
    LET s == a + b IN
    IF s <= MaxU THEN [panic |-> FALSE, val |-> s]
    ELSE IF overflow_checks THEN [panic |-> TRUE, val |-> a]
    ELSE [panic |-> FALSE, val |-> s % SizeU]

RECURSIVE fib(_)
\* The inner fn fib: fib(v - 1) is evaluated first, then fib(v - 2), then the
\* sum.
fib(n) ==
    IF n = 0 THEN [panic |-> FALSE, val |-> 0]
    ELSE IF n = 1 THEN [panic |-> FALSE, val |-> 1]
    ELSE LET a == fib(n - 1) IN
         IF a.panic THEN a
         ELSE LET b == fib(n - 2) IN
              IF b.panic THEN b ELSE usize_add(a.val, b.val)

Fibonacci_new(until) == [kind |-> "Fibonacci", cur |-> 0, until |-> until]

\* A slip: the upper bound taken as exclusive (`>=` for `>`).
Fibonacci_next_exclusive(self) ==
    IF self.cur >= self.until
    THEN [ret |-> None, st |-> self]
    ELSE LET n == self.cur
             a == usize_add(self.cur, 1) IN
         IF a.panic THEN [ret |-> Panic, st |-> self]
         ELSE LET s2 == [self EXCEPT !.cur = a.val]
                  f == fib(n) IN
              IF f.panic THEN [ret |-> Panic, st |-> s2]
              ELSE [ret |-> Some(<<n, f.val>>), st |-> s2]

Fibonacci_next(self) ==
    IF self.cur > self.until
    THEN [ret |-> None, st |-> self]
    ELSE LET n == self.cur
             a == usize_add(self.cur, 1) IN
         IF a.panic THEN [ret |-> Panic, st |-> self]
         ELSE LET s2 == [self EXCEPT !.cur = a.val]
                  f == fib(n) IN
              IF f.panic THEN [ret |-> Panic, st |-> s2]
              ELSE [ret |-> Some(<<n, f.val>>), st |-> s2]

(***************************** range_fn ************************************)
range_fn_new(start, end, incr) ==
    [kind |-> "range_fn", start |-> start, end |-> end, incr |-> incr]

range_fn_call(env) ==
    IF env.start < env.end
    THEN LET a == AddAssign(env.start, env.incr) IN
         IF a.panic
         THEN [ret |-> Panic, st |-> env]
         ELSE [ret |-> Some(env.start), st |-> [env EXCEPT !.start = a.val]]
    ELSE [ret |-> None, st |-> env]

(************************ abstract inner producer **************************)
\* Any `I: Iterator` / `F: FnMut() -> Option<T>` a transformer may wrap: it
\* returns the results of `script` one per call (a script may hold None before
\* its end: an Iterator need not be fused) and None once the script is used
\* up.  `calls` counts the calls made on it.
Inner_iter(script) == [kind |-> "Iterator", script |-> script, calls |-> 0]
Inner_fn(script) == [kind |-> "FnMut", script |-> script, calls |-> 0]

Inner_step(p) ==
    IF p.script = <<>>
    THEN [ret |-> None, st |-> [p EXCEPT !.calls = @ + 1]]
    ELSE [ret |-> Head(p.script),
          st |-> [p EXCEPT !.script = Tail(@), !.calls = @ + 1]]

RECURSIVE Iterator_next(_), FnMut_call(_)
RECURSIVE Bounds_loop(_, _), bounds_fn_loop(_, _), Filter_loop(_, _)

(****************************** Bounds *************************************)
Bounds_new(inner, min, max) ==
    [kind |-> "Bounds", inner |-> inner, min |-> min, max |-> max]

\* A slip: the upper bound taken as inclusive.
Bounds_accepts_inclusive(self, v) == v >= self.min /\ v <= self.max

\* The guard `v >= self.min && v < self.max`.
Bounds_accepts(self, v) == v >= self.min /\ v < self.max

\* A slip: an item >= max ends the call with None instead of being skipped.
Bounds_loop_stops_at_max(self, fuel) ==
    IF fuel = 0 THEN [ret |-> Diverge, st |-> self]
    ELSE LET r == Iterator_next(self.inner)
             s2 == [self EXCEPT !.inner = r.st] IN
         IF IsSome(r.ret) /\ r.ret.val >= self.max
         THEN [ret |-> None, st |-> s2]
         ELSE IF IsSome(r.ret) /\ r.ret.val < self.min
         THEN Bounds_loop(s2, fuel - 1)
         ELSE [ret |-> r.ret, st |-> s2]

\* One turn of `loop { match self.inner.next() { .. } }`.
Bounds_loop(self, fuel) ==
    IF fuel = 0 THEN [ret |-> Diverge, st |-> self]
    ELSE LET r == Iterator_next(self.inner)
             s2 == [self EXCEPT !.inner = r.st] IN
         IF IsSome(r.ret) /\ ~Bounds_accepts(self, r.ret.val)
         THEN Bounds_loop(s2, fuel - 1)
         ELSE [ret |-> r.ret, st |-> s2]

\* A slip: no loop, one pull per call, a rejected item answered with None
\* (`self.inner.next().filter(..)`).
Bounds_next_without_loop(self) ==
    LET r == Iterator_next(self.inner)
        s2 == [self EXCEPT !.inner = r.st] IN
    IF IsSome(r.ret) /\ ~Bounds_accepts(self, r.ret.val)
    THEN [ret |-> None, st |-> s2]
    ELSE [ret |-> r.ret, st |-> s2]

Bounds_next(self) == Bounds_loop(self, LoopFuel)

\* A slip: the two bounds passed on in the wrong order.
bounds_swapped(self, min, max) == Bounds_new(self, max, min)

\* BoundsExt::bounds
bounds(self, min, max) == Bounds_new(self, min, max)

(***************************** bounds_fn ***********************************)
bounds_fn_new(inner, min, max) ==
    [kind |-> "bounds_fn", inner |-> inner, min |-> min, max |-> max]

\* A slip: the scan stops at the first item >= max.
bounds_fn_loop_stops_at_max(env, fuel) ==
    IF fuel = 0 THEN [ret |-> Diverge, st |-> env]
    ELSE LET r == FnMut_call(env.inner)
             s2 == [env EXCEPT !.inner = r.st] IN
         IF IsSome(r.ret) /\ r.ret.val >= env.max
         THEN [ret |-> None, st |-> s2]
         ELSE IF IsSome(r.ret) /\ r.ret.val < env.min
         THEN bounds_fn_loop(s2, fuel - 1)
         ELSE [ret |-> r.ret, st |-> s2]

bounds_fn_loop(env, fuel) ==
    IF fuel = 0 THEN [ret |-> Diverge, st |-> env]
    ELSE LET r == FnMut_call(env.inner)
             s2 == [env EXCEPT !.inner = r.st] IN
         IF IsSome(r.ret) /\ ~(r.ret.val >= env.min /\ r.ret.val < env.max)
         THEN bounds_fn_loop(s2, fuel - 1)
         ELSE [ret |-> r.ret, st |-> s2]

bounds_fn_call(env) == bounds_fn_loop(env, LoopFuel)

\* BoundsExtFn::bounds (the Box holds the closure and adds nothing)
bounds_ext_fn(self, min, max) == bounds_fn_new(self, min, max)

(****************************** Filter *************************************)
\* The closure `|&v| v >= min && v < max` with its captured min and max.
in_range(min, max) == [kind |-> "in_range", min |-> min, max |-> max]

\* A predicate with captured state: it keeps the items it was invoked with
\* and answers its k-th invocation with verdicts[k] (any closure over a
\* counter, a threshold or a log answers this way for some table).
stateful_predicate(verdicts) ==
    [kind |-> "stateful", verdicts |-> verdicts, seen |-> <<>>]

\* A call of the predicate (an FnMut: it may change its captured state).
predicate_call(p, v) ==
    CASE p.kind = "in_range" -> [ret |-> v >= p.min /\ v < p.max, st |-> p]
      [] p.kind = "stateful" ->
           [ret |-> IF Len(p.seen) < Len(p.verdicts)
                    THEN p.verdicts[Len(p.seen) + 1] ELSE FALSE,
            st |-> [p EXCEPT !.seen = Append(@, v)]]

Filter_new(inner, predicate) ==
    [kind |-> "Filter", inner |-> inner, predicate |-> predicate]

\* A slip: a rejected item ends the call with None instead of being skipped.
Filter_loop_returns_on_reject(self, fuel) ==
    LET r == Iterator_next(self.inner)
        s2 == [self EXCEPT !.inner = r.st] IN
    IF ~IsSome(r.ret) THEN [ret |-> r.ret, st |-> s2]
    ELSE LET q == predicate_call(self.predicate, r.ret.val)
             s3 == [s2 EXCEPT !.predicate = q.st] IN
         IF q.ret THEN [ret |-> r.ret, st |-> s3]
         ELSE [ret |-> None, st |-> s3]

\* A slip: the predicate invoked a second time on an accepted item.
Filter_loop_double_predicate(self, fuel) ==
    IF fuel = 0 THEN [ret |-> Diverge, st |-> self]
    ELSE LET r == Iterator_next(self.inner)
             s2 == [self EXCEPT !.inner = r.st] IN
         IF ~IsSome(r.ret) THEN [ret |-> r.ret, st |-> s2]
         ELSE LET q == predicate_call(self.predicate, r.ret.val)
                  s3 == [s2 EXCEPT !.predicate = q.st] IN
              IF q.ret
              THEN LET q2 == predicate_call(s3.predicate, r.ret.val) IN
                   [ret |-> r.ret, st |-> [s3 EXCEPT !.predicate = q2.st]]
              ELSE Filter_loop(s3, fuel - 1)

Filter_loop(self, fuel) ==
    IF fuel = 0 THEN [ret |-> Diverge, st |-> self]
    ELSE LET r == Iterator_next(self.inner)
             s2 == [self EXCEPT !.inner = r.st] IN
         IF ~IsSome(r.ret) THEN [ret |-> r.ret, st |-> s2]
         ELSE LET q == predicate_call(self.predicate, r.ret.val)
                  s3 == [s2 EXCEPT !.predicate = q.st] IN
              IF q.ret THEN [ret |-> r.ret, st |-> s3]
              ELSE Filter_loop(s3, fuel - 1)

Filter_next(self) == Filter_loop(self, LoopFuel)

\* FilterExt::filter_with
filter_with(self, predicate) == Filter_new(self, predicate)

(************************ representation bridge ****************************)
\* iter_to_closure: the struct Iter(inner) with FnMut implemented on it.
iter_to_closure(inner) == [kind |-> "iter_to_closure", inner |-> inner]

\* A slip: the wrapped iterator advanced twice per call.
iter_to_closure_call_twice(self) ==
    LET r == Iterator_next(self.inner)
        r2 == Iterator_next(r.st) IN
    [ret |-> r2.ret, st |-> [self EXCEPT !.inner = r2.st]]

\* call_mut: Iterator::next(&mut self.0)
iter_to_closure_call(self) ==
    LET r == Iterator_next(self.inner) IN
    [ret |-> r.ret, st |-> [self EXCEPT !.inner = r.st]]

\* A slip: the adapter pulls (and drops) one item when it is built.
closure_to_iter_primed(inner) ==
    [kind |-> "closure_to_iter", inner |-> FnMut_call(inner).st]

\* closure_to_iter: the struct Iter(inner) with Iterator implemented on it.
closure_to_iter(inner) == [kind |-> "closure_to_iter", inner |-> inner]

\* next: self.0()
closure_to_iter_next(self) ==
    LET r == FnMut_call(self.inner) IN
    [ret |-> r.ret, st |-> [self EXCEPT !.inner = r.st]]

(*************************** dispatch **************************************)
\* Iterator::next on an object-form producer.
Iterator_next(p) ==
    CASE p.kind = "Range" -> Range_next(p)
      [] p.kind = "Fibonacci" -> Fibonacci_next(p)
      [] p.kind = "Bounds" -> Bounds_next(p)
      [] p.kind = "Filter" -> Filter_next(p)
      [] p.kind = "closure_to_iter" -> closure_to_iter_next(p)
      [] p.kind = "Iterator" -> Inner_step(p)

\* A call of a callable-form producer (FnMut() -> Option<T>).
FnMut_call(f) ==
    CASE f.kind = "range_fn" -> range_fn_call(f)
      [] f.kind = "bounds_fn" -> bounds_fn_call(f)
      [] f.kind = "iter_to_closure" -> iter_to_closure_call(f)
      [] f.kind = "FnMut" -> Inner_step(f)

IsIterator(p) ==
    p.kind \in {"Range", "Fibonacci", "Bounds", "Filter", "closure_to_iter",
                "Iterator"}

Produce(p) == IF IsIterator(p) THEN Iterator_next(p) ELSE FnMut_call(p)

(**************************** the driver ***********************************)
\* A producer whose call panicked or never returned is not called again.
Alive(h) == IF h = <<>> THEN TRUE ELSE Returned(h[Len(h)])

\* One call on producer `name`; the driver calls the producers of `order`
\* in turn (they share no state, so the order of calls between different
\* producers changes no producer's results) and passes over a dead one.
CallPipe(name, order, cap) ==
    /\ Len(out[name]) < cap
    /\ IF Alive(out[name])
       THEN LET r == Produce(pipe[name]) IN
            /\ pipe' = [pipe EXCEPT ![name] = r.st]
            /\ out' = [out EXCEPT ![name] = Append(@, r.ret)]
       ELSE UNCHANGED <<pipe, out>>
    /\ turn' = (turn % Len(order)) + 1
    /\ UNCHANGED <<overflow_checks, args, poll>>

NoPoll == [used |-> FALSE]

(******************* Range and range_fn, side by side **********************)
RangeOrder == <<"range", "range_fn">>

InitRange ==
    /\ overflow_checks \in BOOLEAN
    /\ args \in [start : T, end : T, incr : T]
    /\ pipe = [range |-> Range_new(args.start, args.end, args.incr),
               range_fn |-> range_fn_new(args.start, args.end, args.incr)]
    /\ out = [range |-> <<>>, range_fn |-> <<>>]
    /\ turn = 1
    /\ poll = NoPoll

RangeNext ==
    /\ RangeOrder[turn] = "range"
    /\ CallPipe("range", RangeOrder, RangeCalls)

RangeFnCall ==
    /\ RangeOrder[turn] = "range_fn"
    /\ CallPipe("range_fn", RangeOrder, RangeCalls)

NextRange == RangeNext \/ RangeFnCall

SpecRange == InitRange /\ [][NextRange]_vars

CeilDiv(a, b) == (a + b - 1) \div b

\* C1: for start < end and a positive step, the calls of Range::next return
\* exactly ceil((end-start)/step) items, the k-th being start + (k-1)*step,
\* and None on every call after them.
C1_RangeYieldsCeilItems ==
    (args.start < args.end /\ args.incr > 0) =>
        LET h == out.range
            n == CeilDiv(args.end - args.start, args.incr) IN
        \A k \in 1..Len(h) :
            h[k] = IF k <= n THEN Some(args.start + (k - 1) * args.incr) ELSE None

\* Once a call has returned None, every later call has returned None.
NoneIsFinal(h) ==
    \A k \in 1..Len(h) : \A j \in k..Len(h) : h[k] = None => h[j] = None

\* What one call did to a Range-like producer: `s` before, `s2` after, `r` the
\* result, `cur` the name of the field holding the current value.
FrameOfCall(s, s2, r, cur) ==
    /\ r = None => s2 = s
    /\ s2 # s => IsSome(r)
    /\ IsSome(r) =>
         /\ r.val = s[cur]
         /\ \A f \in DOMAIN s : f # cur => s2[f] = s[f]
         /\ s2[cur] \in T /\ (s2[cur] - s[cur] - s.incr) % SizeT = 0
         /\ overflow_checks => s2[cur] = s[cur] + s.incr

RangeFrame ==
    /\ RangeNext =>
         FrameOfCall(pipe.range, pipe'.range, out'.range[Len(out'.range)], "cur")
    /\ RangeFnCall =>
         FrameOfCall(pipe.range_fn, pipe'.range_fn,
                     out'.range_fn[Len(out'.range_fn)], "start")

\* C10: for every start, end and step, a call of Range::next (or of the
\* range_fn closure) that returns None changes nothing, so None is final;
\* only a call returning Some(v) changes state: cur alone, by incr (exactly
\* with overflow checks, modulo the size of T without them).
C10_NoneLeavesStateUnchanged ==
    /\ [](NoneIsFinal(out.range) /\ NoneIsFinal(out.range_fn))
    /\ [][RangeFrame]_vars

\* A Range has returned an item and later None twice in a row, with end and
\* incr as constructed; the range_fn closure has reached None as well.
C10_Witness ==
    LET h == out.range IN
    /\ Len(h) >= 3
    /\ IsSome(h[1])
    /\ h[Len(h) - 1] = None /\ h[Len(h)] = None
    /\ pipe.range.cur # args.start
    /\ pipe.range.end = args.end /\ pipe.range.incr = args.incr
    /\ Len(out.range_fn) >= 3 /\ out.range_fn[Len(out.range_fn)] = None


\* The current value of the Range-like producer `n`.
CurOf(n) == IF n = "range" THEN pipe.range.cur ELSE pipe.range_fn.start

StepsAboveMin == (args.start - MinT) \div (-args.incr)

C14_NoErrorAtTypeMax ==
    (args.start < args.end /\ args.incr > 0) =>
        LET h == out.range IN
        \A k \in 1..Len(h) :
            /\ h[k] # Panic
            /\ (IsSome(h[k]) /\ h[k].val + args.incr >= args.end) =>
                 \A j \in (k + 1)..Len(h) : h[j] = None

(********** Bounds over Range and bounds_fn over range_fn ******************)
PipeOrder == <<"range", "range_fn", "bounds", "bounds_fn">>

InitPipe ==
    /\ overflow_checks \in BOOLEAN
    /\ args \in [start : T, end : T, incr : T, min : T, max : T]
    /\ pipe = [range |-> Range_new(args.start, args.end, args.incr),
               range_fn |-> range_fn_new(args.start, args.end, args.incr),
               bounds |-> Bounds_new(Range_new(args.start, args.end, args.incr),
                                     args.min, args.max),
               bounds_fn |-> bounds_fn_new(
                                 range_fn_new(args.start, args.end, args.incr),
                                 args.min, args.max)]
    /\ out = [range |-> <<>>, range_fn |-> <<>>, bounds |-> <<>>, bounds_fn |-> <<>>]
    /\ turn = 1
    /\ poll = NoPoll

PipeRangeNext ==
    /\ PipeOrder[turn] = "range"
    /\ CallPipe("range", PipeOrder, RangeCalls)

PipeRangeFnCall ==
    /\ PipeOrder[turn] = "range_fn"
    /\ CallPipe("range_fn", PipeOrder, RangeCalls)

PipeBoundsNext ==
    /\ PipeOrder[turn] = "bounds"
    /\ CallPipe("bounds", PipeOrder, RangeCalls)

PipeBoundsFnCall ==
    /\ PipeOrder[turn] = "bounds_fn"
    /\ CallPipe("bounds_fn", PipeOrder, RangeCalls)

NextPipe == PipeRangeNext \/ PipeRangeFnCall \/ PipeBoundsNext \/ PipeBoundsFnCall

SpecPipe == InitPipe /\ [][NextPipe]_vars

Min2(a, b) == IF a < b THEN a ELSE b
Max2(a, b) == IF a > b THEN a ELSE b

\* The two histories agree on every call both have made.
SamePrefix(h1, h2) == \A k \in 1..Min2(Len(h1), Len(h2)) : h1[k] = h2[k]

\* C6: for the same (start, end, step, min, max) the k-th call of
\* Bounds::new(Range::new(..)) and of bounds_fn::new(range_fn::new(..)) return
\* the same result for every k, and so do Range::new and range_fn::new.
C6_ObjectAndCallableAgree ==
    /\ SamePrefix(out.bounds, out.bounds_fn)
    /\ SamePrefix(out.range, out.range_fn)
    /\ Len(out.bounds) = Len(out.bounds_fn) =>
         pipe.bounds.inner.cur = pipe.bounds_fn.inner.start
    /\ Len(out.range) = Len(out.range_fn) =>
         pipe.range.cur = pipe.range_fn.start

\* Both pipelines skipped an item, returned one, and were called twice after
\* their first None.
C6_Witness ==
    LET h == out.bounds_fn IN
    /\ Len(h) >= 3 /\ Len(out.bounds) = Len(h)
    /\ IsSome(h[1]) /\ h[1].val > args.start
    /\ h[Len(h) - 1] = None /\ h[Len(h)] = None
    /\ Len(out.range_fn) >= 3 /\ IsSome(out.range_fn[2])

(*************** Bounds and Filter over an abstract producer ***************)
\* Items of the abstract producers.
Item == 0..MaxT
SeqsUpTo(S, n) == UNION {[1..k -> S] : k \in 0..n}
\* The scripts of an inner producer: item results, None allowed before the end.
Scripts == SeqsUpTo({Some(v) : v \in Item} \cup {None}, MaxLen)

BoundsOrder == <<"bounds", "filter">>

InitBounds ==
    /\ overflow_checks = TRUE   \* these producers do no arithmetic
    /\ args \in [script : Scripts, min : Item, max : Item]
    /\ pipe = [bounds |-> Bounds_new(Inner_iter(args.script), args.min, args.max),
               filter |-> Filter_new(Inner_iter(args.script),
                                     in_range(args.min, args.max))]
    /\ out = [bounds |-> <<>>, filter |-> <<>>]
    /\ turn = 1
    /\ poll = NoPoll

BoundsNext ==
    /\ BoundsOrder[turn] = "bounds"
    /\ CallPipe("bounds", BoundsOrder, ScriptCalls)

FilterNext ==
    /\ BoundsOrder[turn] = "filter"
    /\ CallPipe("filter", BoundsOrder, ScriptCalls)

NextBounds == BoundsNext \/ FilterNext

SpecBounds == InitBounds /\ [][NextBounds]_vars

\* The call on which a producer with this script first returns None.
FirstNone(script) ==
    IF \E k \in 1..Len(script) : script[k] = None
    THEN CHOOSE k \in 1..Len(script) :
             script[k] = None /\ \A j \in 1..(k - 1) : script[j] # None
    ELSE Len(script) + 1

\* The items a producer with this script returns before its first None.
ItemsOf(script) == [k \in 1..(FirstNone(script) - 1) |-> script[k].val]

\* The items of P within [min, max), in P's order.
Qualifying(script, min, max) ==
    LET InRange(v) == min <= v /\ v < max IN
    SelectSeq(ItemsOf(script), InRange)

\* C2: up to its first None, Bounds::new(P, min, max) returns exactly the
\* items v of P with min <= v < max, in P's order, and it returns None in
\* the very call in which P first returns None, never earlier.
C2_BoundsYieldsQualifyingItems ==
    LET h == out.bounds
        exp == Qualifying(args.script, args.min, args.max)
        pulls == pipe.bounds.inner.calls IN
    /\ \A k \in 1..Min2(Len(h), Len(exp)) : h[k] = Some(exp[k])
    /\ Len(h) > Len(exp) => h[Len(exp) + 1] = None
    /\ Len(h) <= Len(exp) => pulls < FirstNone(args.script)
    /\ Len(h) = Len(exp) + 1 => pulls = FirstNone(args.script)

\* P returned three items, the middle one outside [min, max); Bounds has
\* returned the two others and then None.
C2_Witness ==
    /\ Len(ItemsOf(args.script)) = 3
    /\ Len(Qualifying(args.script, args.min, args.max)) = 2
    /\ ~(args.min <= args.script[2].val /\ args.script[2].val < args.max)
    /\ Len(out.bounds) = 3 /\ out.bounds[3] = None

\* C7: every item Filter::next returns satisfies the predicate, and with the
\* predicate v >= min && v < max Filter::new(P, predicate) returns on every
\* call what Bounds::new(P, min, max) returns, leaving P at the same point.
C7_FilterAgreesWithBounds ==
    /\ \A k \in 1..Len(out.filter) :
         IsSome(out.filter[k]) =>
             predicate_call(pipe.filter.predicate, out.filter[k].val).ret
    /\ SamePrefix(out.filter, out.bounds)
    /\ Len(out.filter) = Len(out.bounds) => pipe.filter.inner = pipe.bounds.inner

\* Filter skipped a rejected item, returned an accepted one, then None.
C7_Witness ==
    LET h == out.filter IN
    /\ Len(h) >= 2 /\ Len(out.bounds) = Len(h)
    /\ IsSome(h[1]) /\ IsSome(args.script[1]) /\ h[1] # args.script[1]
    /\ h[Len(h)] = None

(************************* chains of bounds ********************************)
\* The (min, max) pairs of a chain p.bounds(..).bounds(..), innermost first.
Pair == [min : Item, max : Item]
Nested(c) ==
    /\ \A i \in 1..Len(c) : c[i].min <= c[i].max
    /\ \A i \in 1..(Len(c) - 1) :
         c[i].min <= c[i + 1].min /\ c[i + 1].max <= c[i].max
\* Every chain of two, and the chains of three nested ranges.
Chains == [1..2 -> Pair] \cup {c \in [1..3 -> Pair] : Nested(c)}
\* A finite producer: items, then None.
ChainLen == MaxLen - 1
ChainCalls == ChainLen + ExtraCalls
ItemScripts == SeqsUpTo({Some(v) : v \in Item}, ChainLen)

RECURSIVE ChainIter(_, _), ChainFn(_, _), Reverse(_), Innermost(_)
RECURSIVE ChainMin(_), ChainMax(_)

\* p.bounds(c1).bounds(c2)... through BoundsExt
ChainIter(p, c) ==
    IF c = <<>> THEN p
    ELSE ChainIter(bounds(p, c[1].min, c[1].max), Tail(c))

\* f.bounds(c1).bounds(c2)... through BoundsExtFn
ChainFn(f, c) ==
    IF c = <<>> THEN f
    ELSE ChainFn(bounds_ext_fn(f, c[1].min, c[1].max), Tail(c))

Reverse(c) == IF c = <<>> THEN <<>> ELSE Append(Reverse(Tail(c)), c[1])

\* The intersection of the chain's ranges is [ChainMin, ChainMax).
ChainMin(c) == IF Len(c) = 1 THEN c[1].min ELSE Max2(c[1].min, ChainMin(Tail(c)))
ChainMax(c) == IF Len(c) = 1 THEN c[1].max ELSE Min2(c[1].max, ChainMax(Tail(c)))

\* The producer at the bottom of a chain of wrappers.
Innermost(p) == IF "inner" \in DOMAIN p THEN Innermost(p.inner) ELSE p

ChainOrder == <<"single", "chain", "chain_rev", "fn_single", "fn_chain">>

InitChain ==
    /\ overflow_checks = TRUE   \* these producers do no arithmetic
    /\ args \in [script : ItemScripts, chain : Chains]
    /\ pipe = [single |-> Bounds_new(Inner_iter(args.script),
                                     ChainMin(args.chain), ChainMax(args.chain)),
               chain |-> ChainIter(Inner_iter(args.script), args.chain),
               chain_rev |-> ChainIter(Inner_iter(args.script), Reverse(args.chain)),
               fn_single |-> bounds_fn_new(Inner_fn(args.script),
                                     ChainMin(args.chain), ChainMax(args.chain)),
               fn_chain |-> ChainFn(Inner_fn(args.script), args.chain)]
    /\ out = [n \in DOMAIN pipe |-> <<>>]
    /\ turn = 1
    /\ poll = NoPoll

SingleNext ==
    /\ ChainOrder[turn] = "single"
    /\ CallPipe("single", ChainOrder, ChainCalls)

ChainNext ==
    /\ ChainOrder[turn] = "chain"
    /\ CallPipe("chain", ChainOrder, ChainCalls)

ChainRevNext ==
    /\ ChainOrder[turn] = "chain_rev"
    /\ CallPipe("chain_rev", ChainOrder, ChainCalls)

FnSingleCall ==
    /\ ChainOrder[turn] = "fn_single"
    /\ CallPipe("fn_single", ChainOrder, ChainCalls)

FnChainCall ==
    /\ ChainOrder[turn] = "fn_chain"
    /\ CallPipe("fn_chain", ChainOrder, ChainCalls)

NextChain ==
    \/ SingleNext \/ ChainNext \/ ChainRevNext
    \/ FnSingleCall \/ FnChainCall

SpecChain == InitChain /\ [][NextChain]_vars

\* Producer `n` has returned what `m` returned, call by call, and after the
\* same number of calls has consumed as much of P.
AgreesWith(n, m) ==
    /\ SamePrefix(out[n], out[m])
    /\ Len(out[n]) = Len(out[m]) =>
         /\ Innermost(pipe[n]).script = Innermost(pipe[m]).script
         /\ Innermost(pipe[n]).calls = Innermost(pipe[m]).calls

\* C5: a chain P.bounds(a, b).bounds(c, d) returns the same items and is
\* exhausted at the same point as one Bounds over P with the intersection
\* [max(a,c), min(b,d)), hence as P.bounds(c, d).bounds(a, b); likewise a
\* chain of three nested ranges and its innermost range; for the object
\* form (BoundsExt) and the callable form (BoundsExtFn).
C5_ChainIsIntersection ==
    /\ AgreesWith("chain", "single")
    /\ AgreesWith("chain_rev", "chain")
    /\ AgreesWith("fn_chain", "fn_single")
    /\ AgreesWith("fn_single", "single")

\* A chain of two overlapping ranges over two items: one item passed the
\* first range and not the second, one passed both, and the chains have
\* returned that one and then None.
C5_Witness ==
    LET c == args.chain
        In(v, r) == r.min <= v /\ v < r.max IN
    /\ Len(c) = 2 /\ Len(args.script) = 2
    /\ \E i, j \in 1..2 :
         /\ In(args.script[i].val, c[1]) /\ ~In(args.script[i].val, c[2])
         /\ In(args.script[j].val, c[1]) /\ In(args.script[j].val, c[2])
    /\ \E v \in Item : out.chain = <<Some(v), None>>
    /\ out.fn_chain = out.chain /\ out.chain_rev = out.chain

(******************** the bridge, there and back ***************************)
BridgeOrder == <<"direct", "adapted">>

\* `direct` is P itself, `adapted` is closure_to_iter(iter_to_closure(P)),
\* `staged` is P converted while it is being consumed; out.converted holds
\* the number of calls made on `staged` before each conversion.
InitBridge ==
    /\ overflow_checks = TRUE   \* these producers do no arithmetic
    /\ args \in [script : Scripts]
    /\ pipe = [direct |-> Inner_iter(args.script),
               adapted |-> closure_to_iter(iter_to_closure(Inner_iter(args.script))),
               staged |-> Inner_iter(args.script)]
    /\ out = [direct |-> <<>>, adapted |-> <<>>, staged |-> <<>>, converted |-> <<>>]
    /\ turn = 1
    /\ poll = NoPoll

DirectNext ==
    /\ BridgeOrder[turn] = "direct"
    /\ CallPipe("direct", BridgeOrder, ScriptCalls)

AdaptedNext ==
    /\ BridgeOrder[turn] = "adapted"
    /\ CallPipe("adapted", BridgeOrder, ScriptCalls)

\* it.next() on the staged producer while it is in object form
StagedNext ==
    /\ IsIterator(pipe.staged)
    /\ Len(out.staged) < ScriptCalls
    /\ LET r == Iterator_next(pipe.staged) IN
         /\ pipe' = [pipe EXCEPT !.staged = r.st]
         /\ out' = [out EXCEPT !.staged = Append(@, r.ret)]
    /\ UNCHANGED <<overflow_checks, args, turn, poll>>

\* let mut f = iter_to_closure(it)
StagedToClosure ==
    /\ pipe.staged.kind = "Iterator"
    /\ pipe' = [pipe EXCEPT !.staged = iter_to_closure(@)]
    /\ out' = [out EXCEPT !.converted = Append(@, Len(out.staged))]
    /\ UNCHANGED <<overflow_checks, args, turn, poll>>

\* f() on the staged producer while it is in callable form
StagedCall ==
    /\ ~IsIterator(pipe.staged)
    /\ Len(out.staged) < ScriptCalls
    /\ LET r == FnMut_call(pipe.staged) IN
         /\ pipe' = [pipe EXCEPT !.staged = r.st]
         /\ out' = [out EXCEPT !.staged = Append(@, r.ret)]
    /\ UNCHANGED <<overflow_checks, args, turn, poll>>

\* let mut it = closure_to_iter(f)
StagedToIter ==
    /\ pipe.staged.kind = "iter_to_closure"
    /\ pipe' = [pipe EXCEPT !.staged = closure_to_iter(@)]
    /\ out' = [out EXCEPT !.converted = Append(@, Len(out.staged))]
    /\ UNCHANGED <<overflow_checks, args, turn, poll>>

NextBridge ==
    \/ DirectNext \/ AdaptedNext
    \/ StagedNext \/ StagedToClosure \/ StagedCall \/ StagedToIter

SpecBridge == InitBridge /\ [][NextBridge]_vars

\* C3: closure_to_iter(iter_to_closure(P)) returns on its k-th call what P
\* returns on its k-th call, for every k (the first None included), and each
\* call on the adapter makes exactly one call on P.
C3_RoundTripIsTransparent ==
    /\ SamePrefix(out.adapted, out.direct)
    /\ Innermost(pipe.adapted).calls = Len(out.adapted)
    /\ Len(out.adapted) = Len(out.direct) => Innermost(pipe.adapted) = pipe.direct

\* Through the adapter P has returned an item, then None, then an item again
\* (P is not fused), as it does when driven directly.
C3_Witness ==
    /\ Len(out.adapted) = 3 /\ Len(out.direct) = 3
    /\ IsSome(out.adapted[1]) /\ out.adapted[2] = None /\ IsSome(out.adapted[3])

\* C4: a producer consumed for i calls, converted with iter_to_closure,
\* called j times, converted back with closure_to_iter and called further
\* returns, over all these calls, what P driven directly returns: no item is
\* skipped or repeated by a conversion, for every i and j.
C4_ConversionResumesInPlace ==
    /\ SamePrefix(out.staged, out.direct)
    /\ \A k \in 1..Len(out.staged) :
         out.staged[k] = IF k <= Len(args.script) THEN args.script[k] ELSE None
    /\ Innermost(pipe.staged).calls = Len(out.staged)

\* One call in object form, one as a closure, one after converting back, each
\* returning an item, and then None.
C4_Witness ==
    /\ pipe.staged.kind = "closure_to_iter"
    /\ out.converted = <<1, 2>>
    /\ Len(out.staged) = 4
    /\ \A k \in 1..3 : IsSome(out.staged[k])
    /\ out.staged[4] = None

(************************* the poll protocol *******************************)
\* enum Poll<T> { Ready(Option<T>), NotReady }
Ready(o) == [tag |-> "Ready", val |-> o]
NotReady == [tag |-> "NotReady"]

\* A Notifier is identified by the poll it was passed to; NoNotifier is the
\* absence of one.
NoNotifier == 0

\* A producer implementing MultiplexedIterator: `future` are the items its
\* event source has yet to deliver, `avail` the delivered ones not yet
\* returned, `held` the notifier it keeps after answering NotReady.
Multiplexed_new(items) ==
    [kind |-> "MultiplexedIterator", future |-> items, avail |-> <<>>,
     held |-> NoNotifier]

\* fn next(&mut self, n: Notifier) -> Poll<Self::Item>
Multiplexed_next(self, n) ==
    IF self.avail # <<>>
    THEN [ret |-> Ready(Some(Head(self.avail))),
          st |-> [self EXCEPT !.avail = Tail(@)]]
    ELSE IF self.future = <<>>
    THEN [ret |-> Ready(None), st |-> self]
    ELSE [ret |-> NotReady, st |-> [self EXCEPT !.held = n]]

\* A producer breaking the contract: it never invokes the notifier it holds.
Multiplexed_on_event_silent(self) ==
    [st |-> [self EXCEPT !.future = Tail(@),
                         !.avail = Append(@, Head(self.future)),
                         !.held = NoNotifier],
     notify |-> NoNotifier]

\* The event source delivers the next item; the producer invokes the
\* notifier it holds, if any ("must notify the poller when it can poll
\* again after having returned NotReady").
Multiplexed_on_event(self) ==
    [st |-> [self EXCEPT !.future = Tail(@),
                         !.avail = Append(@, Head(self.future)),
                         !.held = NoNotifier],
     notify |-> self.held]

\* A driver that spins: it polls again although it was told NotReady.
Driver_may_poll_spinning(obs, fired) ==
    IF obs = <<>> THEN TRUE ELSE obs[Len(obs)] # Ready(None)

\* The driver polls at first, right after an item, and after NotReady only
\* once the notifier of that poll has been invoked; Ready(None) is terminal.
Driver_may_poll(obs, fired) ==
    IF obs = <<>> THEN TRUE
    ELSE LET last == obs[Len(obs)] IN
         IF last = NotReady THEN Len(obs) \in fired
         ELSE last # Ready(None)

InitPoll ==
    /\ overflow_checks = TRUE   \* these producers do no arithmetic
    /\ args \in [items : SeqsUpTo(Item, MaxLen)]
    /\ pipe = [producer |-> Multiplexed_new(args.items)]
    /\ out = [driver |-> <<>>]
    /\ turn = 1
    /\ poll = [fired |-> {}]

\* The driver calls producer.next(n) with a fresh notifier n.
DriverPoll ==
    /\ Driver_may_poll(out.driver, poll.fired)
    /\ LET r == Multiplexed_next(pipe.producer, Len(out.driver) + 1) IN
         /\ pipe' = [pipe EXCEPT !.producer = r.st]
         /\ out' = [out EXCEPT !.driver = Append(@, r.ret)]
    /\ UNCHANGED <<overflow_checks, args, turn, poll>>

\* The producer's event source fires.
Event ==
    /\ pipe.producer.future # <<>>
    /\ LET e == Multiplexed_on_event(pipe.producer) IN
         /\ pipe' = [pipe EXCEPT !.producer = e.st]
         /\ poll' = [poll EXCEPT !.fired =
                        IF e.notify = NoNotifier THEN @ ELSE @ \cup {e.notify}]
    /\ UNCHANGED <<overflow_checks, args, out, turn>>

NextPoll == DriverPoll \/ Event

SpecPoll == InitPoll /\ [][NextPoll]_vars

\* The event source keeps delivering and the driver loop keeps running.
SpecPollFair == SpecPoll /\ WF_vars(Event) /\ WF_vars(DriverPoll)

MaxPolls == 2 * MaxLen + 1

\* The number of items among the first k observations.
RECURSIVE ItemsSeen(_, _)
ItemsSeen(obs, k) ==
    IF k = 0 THEN 0
    ELSE ItemsSeen(obs, k - 1) + (IF obs[k].tag = "Ready" /\ IsSome(obs[k].val) THEN 1 ELSE 0)

\* C8: a driver that polls again only after the notifier has been invoked
\* observes, after a NotReady, the item Ready(Some(x)) and never a second
\* NotReady for it (for a producer of one item x: exactly NotReady,
\* Ready(Some(x)), then the end), and makes no poll between the NotReady and
\* the notification.
C8_NotReadyThenReady ==
    /\ [](LET obs == out.driver IN
          /\ \A k \in 1..(Len(obs) - 1) :
               obs[k] = NotReady =>
                   obs[k + 1] = Ready(Some(args.items[ItemsSeen(obs, k) + 1]))
          /\ (Len(args.items) = 1 /\ obs # <<>> /\ obs[1] = NotReady) =>
               \E n \in 1..3 :
                   obs = SubSeq(<<NotReady, Ready(Some(args.items[1])), Ready(None)>>, 1, n))
    /\ [][DriverPoll =>
            (out.driver # <<>> /\ out.driver[Len(out.driver)] = NotReady
                => Len(out.driver) \in poll.fired)]_vars

\* The driver of a one-item producer has observed NotReady, Ready(Some(x)).
C8_Witness ==
    /\ Len(args.items) = 1
    /\ out.driver = <<NotReady, Ready(Some(args.items[1]))>>
    /\ poll.fired = {1}

\* C9: every poll answered NotReady is eventually followed by an invocation
\* of the notifier passed to it, hence by a further poll, and the driver
\* eventually observes a Ready result.
C9_NotReadyEventuallyNotified ==
    \A k \in 1..MaxPolls :
        /\ (Len(out.driver) >= k /\ out.driver[k] = NotReady) ~> (k \in poll.fired)
        /\ (Len(out.driver) >= k /\ out.driver[k] = NotReady)
              ~> (Len(out.driver) > k /\ out.driver[k + 1].tag = "Ready")

\* Two polls were answered NotReady, both notifiers were invoked, and the
\* driver has reached the end of the sequence.
C9_Witness ==
    /\ Cardinality(poll.fired) >= 2
    /\ out.driver[Len(out.driver)] = Ready(None)
    /\ pipe.producer.held = NoNotifier

(****************** one call of a scanning transformer *********************)
\* Bounds, Filter and bounds_fn over the same abstract producer, and a
\* producer built through both adapters:
\* closure_to_iter(bounds_fn(iter_to_closure(P), min, max)).
ScanOrder == <<"bounds", "filter", "bounds_fn", "bridged">>

InitScan ==
    /\ overflow_checks = TRUE   \* these producers do no arithmetic
    /\ args \in [script : Scripts, min : Item, max : Item]
    /\ pipe = [bounds |-> Bounds_new(Inner_iter(args.script), args.min, args.max),
               filter |-> Filter_new(Inner_iter(args.script),
                                     in_range(args.min, args.max)),
               bounds_fn |-> bounds_fn_new(Inner_fn(args.script),
                                           args.min, args.max),
               bridged |-> closure_to_iter(
                               bounds_fn_new(
                                   iter_to_closure(Inner_iter(args.script)),
                                   args.min, args.max))]
    /\ out = [n \in {"bounds", "filter", "bounds_fn", "bridged"} |-> <<>>]
    /\ turn = 1
    /\ poll = NoPoll

ScanBoundsNext ==
    /\ ScanOrder[turn] = "bounds"
    /\ CallPipe("bounds", ScanOrder, ScriptCalls)

ScanFilterNext ==
    /\ ScanOrder[turn] = "filter"
    /\ CallPipe("filter", ScanOrder, ScriptCalls)

ScanBoundsFnCall ==
    /\ ScanOrder[turn] = "bounds_fn"
    /\ CallPipe("bounds_fn", ScanOrder, ScriptCalls)

ScanBridgedNext ==
    /\ ScanOrder[turn] = "bridged"
    /\ CallPipe("bridged", ScanOrder, ScriptCalls)

NextScan ==
    ScanBoundsNext \/ ScanFilterNext \/ ScanBoundsFnCall \/ ScanBridgedNext

SpecScan == InitScan /\ [][NextScan]_vars

\* The result of the k-th call on a producer with this script.
ResultOf(script, k) == IF k <= Len(script) THEN script[k] ELSE None

\* What one call did: `before` and `after` are the transformer around the
\* call, `r` its result, `h` the results of its earlier calls.
ScanOfCall(before, after, r, h) ==
    LET a == Innermost(before).calls
        b == Innermost(after).calls
        Accepted(v) == args.min <= v /\ v < args.max IN
    /\ Returned(r)
    /\ b > a
    /\ r = ResultOf(args.script, b)
    /\ IsSome(r) => Accepted(r.val)
    /\ \A k \in (a + 1)..(b - 1) :
         /\ IsSome(ResultOf(args.script, k))
         /\ ~Accepted(ResultOf(args.script, k).val)
    /\ (r = None /\ \A k \in 1..Len(h) : h[k] # None) =>
         b = Len(ItemsOf(args.script)) + 1

ScanStep ==
    \A n \in {"bounds", "filter", "bounds_fn"} :
        out'[n] # out[n] =>
            ScanOfCall(pipe[n], pipe'[n], out'[n][Len(out'[n])], out[n])

\* C11: every call of Bounds::next, Filter::next and the bounds_fn closure
\* over a finite inner producer returns; it has pulled at least one result
\* and returns the last one it pulled, which is an accepted item or the
\* inner producer's None; every result it pulled before that one was a
\* rejected item (below min or >= max alike: no item ends the scan); and the
\* call that first returns None has brought the calls made on the inner
\* producer to the number of its items plus one.
C11_CallScansToAcceptedOrNone == [][ScanStep]_vars

\* The first call of Bounds::next pulled an item >= max and an item < min,
\* skipped both and returned the third, an item within the bounds.
C11_Witness ==
    /\ Len(args.script) = 3 /\ \A k \in 1..3 : IsSome(args.script[k])
    /\ args.script[1].val >= args.max /\ args.script[2].val < args.min
    /\ out.bounds = <<args.script[3]>>
    /\ pipe.bounds.inner.calls = 3

\* The producers of the scan, one call history each.
ScanNames == {"bounds", "filter", "bounds_fn", "bridged"}

\* C12: once Bounds, Filter, bounds_fn or a producer built from them through
\* iter_to_closure / closure_to_iter has returned None, every later call
\* returns None, whatever inner producer it wraps.
C12_NoneIsFinalForAnyInner == \A n \in ScanNames : NoneIsFinal(out[n])

\* An inner producer that keeps returning None after its first None.
Fused(script) == \A k \in 1..Len(script) : script[k] # None

\* C12 (amended): over an inner producer that itself keeps returning None
\* after its first None, once Bounds, Filter, bounds_fn or a producer built
\* from them through the adapters has returned None, every later call
\* returns None.
C12_NoneIsFinalOverFusedInner ==
    Fused(args.script) => \A n \in ScanNames : NoneIsFinal(out[n])

\* Over a fused producer of three items every transformer returned an item,
\* then None, then None again.
C12_Witness ==
    /\ Fused(args.script) /\ Len(args.script) = 3
    /\ \A n \in ScanNames :
         /\ Len(out[n]) = ScriptCalls
         /\ IsSome(out[n][1])
         /\ out[n][ScriptCalls - 1] = None /\ out[n][ScriptCalls] = None

(***************** Filter with a stateful predicate ************************)
\* The answers of a stateful predicate to its successive invocations.
Verdicts == [1..MaxLen -> BOOLEAN]

FilterOrder == <<"filter">>

InitFilter ==
    /\ overflow_checks = TRUE   \* these producers do no arithmetic
    /\ args \in [script : Scripts, verdicts : Verdicts]
    /\ pipe = [filter |-> filter_with(Inner_iter(args.script),
                                      stateful_predicate(args.verdicts))]
    /\ out = [filter |-> <<>>]
    /\ turn = 1
    /\ poll = NoPoll

StatefulFilterNext ==
    /\ FilterOrder[turn] = "filter"
    /\ CallPipe("filter", FilterOrder, ScriptCalls)

NextFilter == StatefulFilterNext

SpecFilter == InitFilter /\ [][NextFilter]_vars

\* The values of the item results of a sequence of results, in order.
ValuesOf(h) ==
    LET some == SelectSeq(h, IsSome) IN [k \in 1..Len(some) |-> some[k].val]

\* The items among the first n results of an inner producer.
PulledItems(script, n) == ValuesOf(SubSeq(script, 1, Min2(n, Len(script))))

RECURSIVE KeepWhere(_, _, _)
\* The items, from the i-th on, whose invocation was answered with true.
KeepWhere(items, verdicts, i) ==
    IF i > Len(items) THEN <<>>
    ELSE (IF verdicts[i] THEN <<items[i]>> ELSE <<>>)
             \o KeepWhere(items, verdicts, i + 1)

\* C15: the invocations of the predicate made by Filter::next are, in order,
\* exactly the items pulled from the inner producer so far, one invocation
\* per item and none for a pulled None; the items Filter has returned are
\* exactly the pulled items whose invocation returned true, in order; and
\* Filter has returned None once for each None it pulled.
C15_PredicateSeesInnerSequence ==
    LET f == pipe.filter
        pulled == PulledItems(args.script, f.inner.calls) IN
    /\ f.predicate.seen = pulled
    /\ ValuesOf(out.filter) = KeepWhere(pulled, args.verdicts, 1)
    /\ Len(out.filter) - Len(ValuesOf(out.filter))
           = f.inner.calls - Len(pulled)

\* The inner producer returned the same item twice; the predicate rejected
\* it the first time and accepted it the second time, and Filter returned it
\* once, then None.
C15_Witness ==
    /\ Len(args.script) = 2 /\ IsSome(args.script[1])
    /\ args.script[2] = args.script[1]
    /\ ~args.verdicts[1] /\ args.verdicts[2]
    /\ out.filter = <<args.script[1], None>>
    /\ Len(pipe.filter.predicate.seen) = 2

(***************************** Fibonacci ***********************************)
\* Calls driven past the longest run of items.
FibCalls == SizeU + ExtraCalls

FibOrder == <<"fib">>

InitFib ==
    /\ overflow_checks \in BOOLEAN
    /\ args \in [until : 0..MaxU]
    /\ pipe = [fib |-> Fibonacci_new(args.until)]
    /\ out = [fib |-> <<>>]
    /\ turn = 1
    /\ poll = NoPoll

FibNext ==
    /\ FibOrder[turn] = "fib"
    /\ CallPipe("fib", FibOrder, FibCalls)

NextFib == FibNext

SpecFib == InitFib /\ [][NextFib]_vars

RECURSIVE FibNumber(_)
\* The n-th Fibonacci number, as a natural number.
FibNumber(n) == IF n <= 1 THEN n ELSE FibNumber(n - 1) + FibNumber(n - 2)

\* The k-th call returned the pair (k-1, fib(k-1)) while k-1 <= until and
\* None after that, and once None was returned cur stands at until + 1.
YieldsUntilPlusOne ==
    LET h == out.fib IN
    /\ \A k \in 1..Len(h) :
         h[k] = IF k <= args.until + 1
                THEN Some(<<k - 1, FibNumber(k - 1)>>) ELSE None
    /\ Len(h) > args.until + 1 => pipe.fib.cur = args.until + 1

\* C16: for every until, Fibonacci::new(until) returns exactly the until + 1
\* pairs (n, fib(n)), n = 0..until, in increasing order of n, then None on
\* every call, cur no longer changing.
C16_FibonacciYieldsPairs == YieldsUntilPlusOne

\* C16 (amended): for every until whose fib(until) is a value of usize,
\* Fibonacci::new(until) returns exactly the until + 1 pairs (n, fib(n)),
\* n = 0..until, in increasing order of n, then None on every call, cur no
\* longer changing.
C16_FibonacciYieldsPairsWithinUsize ==
    FibNumber(args.until) <= MaxU => YieldsUntilPlusOne

\* With the greatest until whose fib(until) is a value of usize, all
\* until + 1 pairs were returned, the last being (until, fib(until)), and
\* then None twice.
C16_Witness ==
    LET h == out.fib IN
    /\ FibNumber(args.until) <= MaxU /\ FibNumber(args.until + 1) > MaxU
    /\ Len(h) = args.until + 3
    /\ h[args.until + 1] = Some(<<args.until, FibNumber(args.until)>>)
    /\ h[args.until + 2] = None /\ h[args.until + 3] = None
    /\ pipe.fib.cur = args.until + 1

====
